---- MODULE Spec2Model ----
(***************************************************************************)
(* Model of code/gmane.py: the resumable harvest loop that reads the       *)
(* maximum stored id, prompts for a batch size, retrieves one archive      *)
(* document per id, parses it and inserts a row into the messages table.   *)
(***************************************************************************)
EXTENDS Bags, FiniteSets, Integers, Sequences, TLC

VARIABLES
    committed,  \* bag of rows of table messages that are committed (visible to every client)
    pending,    \* bag of rows inserted by this connection and not yet committed
    start,      \* gmane.py `start`: the in-memory cursor
    many,       \* gmane.py `many`: what is left of the batch budget
    count,      \* gmane.py `count`: documents retrieved with status 200
    fail,       \* gmane.py `fail`: the consecutive-failure counter
    url,        \* gmane.py `url`: the last retrieval address built
    pc,         \* position of the script
    closed,     \* TRUE once cur.close() has run
    event,      \* what the last step of the script did (history)
    netcalls,   \* number of urlopen calls made in this run (history)
    attempts,   \* number of urlopen calls made since the last prompt (history)
    budget,     \* the last value of int(sval) accepted at the prompt (history)
    tfails,     \* length of the current streak of consecutive transport failures (history)
    reached,    \* [id, present] of the last presence check (history)
    text,       \* gmane.py `text`: the document of the last retrieval
    status,     \* HTTP status the last urlopen call met, 0 when it met none (history)
    cause,      \* why the loop was left, "none" while it runs (history)
    others,     \* number of rows the other client has committed (history)
    tried,      \* ids this run has made a retrieval for (history)
    failed,     \* ids whose retrieval failed, in this run or an earlier one (history)
    runs        \* number of runs of the script that came before this one (history)

vars == <<committed, pending, start, many, count, fail, url, pc, closed,
          event, netcalls, attempts, budget, tfails, reached, text, status, cause,
          others, tried, failed, runs>>

----------------------------------------------------------------------------
(* Bounds of the model. *)

\* the cursor is not advanced beyond MaxId
MaxId == 6
\* the largest id a store can hold when the run starts
MaxInitId == 2
\* the number of rows the other client commits during the run
MaxOthers == 1
\* the number of lines of a header block one From pattern matches
MaxMatches == 2
\* the ids a long batch still has to go through
MaxBatch == 4
\* the number of times the script is started again after it has ended
MaxRuns == 1

(* Program constants. *)

\* `if fail > 5 : break`
FailLimit == 5
\* `if count % 50 == 0 : conn.commit()`
CommitEvery == 50

NULL == "NULL"
BaseUrl == "http://mbox.dr-chuck.net/sakai.devel/"

----------------------------------------------------------------------------
(* Conversions. *)

Digit == <<"0", "1", "2", "3", "4", "5", "6", "7", "8", "9">>

RECURSIVE StrNat(_)
StrNat(n) == IF n < 10 THEN <<Digit[n + 1]>>
             ELSE StrNat(n \div 10) \o <<Digit[(n % 10) + 1]>>

\* str(n) of a Python int: the decimal digits, with a leading "-" below zero
Str(n) == IF n < 0 THEN <<"-">> \o StrNat(-n) ELSE StrNat(n)

DigitVal(c) == CHOOSE d \in 0..9 : Digit[d + 1] = c

IsDigit(c) == \E d \in 0..9 : Digit[d + 1] = c

RECURSIVE NatOf(_)
NatOf(s) == IF Len(s) = 0 THEN 0
            ELSE 10 * NatOf(SubSeq(s, 1, Len(s) - 1)) + DigitVal(s[Len(s)])

AllDigits(s) == Len(s) > 0 /\ \A i \in 1..Len(s) : IsDigit(s[i])

\* int(sval): the value of an optionally signed run of digits, otherwise ValueError
IntOf(sval) ==
    IF AllDigits(sval) THEN [ok |-> TRUE, val |-> NatOf(sval)]
    ELSE IF Len(sval) > 1 /\ sval[1] = "-" /\ AllDigits(Tail(sval))
         THEN [ok |-> TRUE, val |-> 0 - NatOf(Tail(sval))]
    ELSE IF Len(sval) > 1 /\ sval[1] = "+" /\ AllDigits(Tail(sval))
         THEN [ok |-> TRUE, val |-> NatOf(Tail(sval))]
    ELSE [ok |-> FALSE, val |-> 0]

\* what the operator can type at 'How many messages:'
Inputs == { <<>>, <<"0">>, <<"2">>, <<"-", "1">>, <<"2", "a">> }

----------------------------------------------------------------------------
(* The archive's documents.  A document is described by what the script    *)
(* asks of it: whether it starts with "From ", where the first blank line  *)
(* is (text.find), and the lists re.findall returns on its header block.   *)

Document(n, m, p, fa, fb, dt, sj) ==
    [name |-> n, marker |-> m, pos |-> p, fromAngle |-> fa, fromBare |-> fb,
     dates |-> dt, subjects |-> sj]

DocFull    == Document("full", TRUE, 40, <<"Ann@X.org">>, <<>>, <<"rfc (PDT)">>, <<" Hello ">>)
DocBare    == Document("bare", TRUE, 30, <<>>, <<"<Bob@Y.org">>, <<>>, <<>>)
DocAmbig   == Document("ambig", TRUE, 60, <<"Ann@X.org", "Cy@Z.org">>, <<"<Bob@Y.org">>,
                       <<"rfc", "odd">>, <<" Hello ", "Re">>)
DocOdd     == Document("odd", TRUE, 35, <<>>, <<>>, <<"odd">>, <<"Re">>)
DocBadDate == Document("baddate", TRUE, 35, <<"Ann@X.org">>, <<>>, <<"bad">>, <<"Re">>)
DocNoFrom  == Document("nofrom", FALSE, 20, <<>>, <<>>, <<>>, <<>>)
DocNoBreak == Document("nobreak", TRUE, -1, <<>>, <<>>, <<>>, <<>>)

\* `text = "None"`: a string without marker, blank line or header lines
TextNone   == Document("None", FALSE, -1, <<>>, <<>>, <<>>, <<>>)

\* s.strip().lower() on the strings of the documents above
StripLower(s) ==
    CASE s = "Ann@X.org"  -> "ann@x.org"
      [] s = "Cy@Z.org"   -> "cy@z.org"
      [] s = "<Bob@Y.org" -> "<bob@y.org"
      [] s = " Hello "    -> "hello"
      [] s = "Re"         -> "re"
      [] OTHER            -> s

\* s.replace("<", "")
DropLt(s) == IF s = "<bob@y.org" THEN "bob@y.org" ELSE s

\* tdate[:26]: a date value longer than 26 characters loses its tail
Truncate26(s) == IF s = "rfc (PDT)" THEN "rfc" ELSE s

\* dateutil's parser.parse(...).isoformat(): raises on what it cannot read
PrimaryParse(tdate) ==
    IF tdate = "rfc" THEN [raised |-> FALSE, val |-> "iso:rfc"]
    ELSE [raised |-> TRUE, val |-> NULL]

\* datecompat.parsemaildate(md), the secondary parser: it fails on what it cannot read
SecondaryParse(md) ==
    IF md = "rfc" THEN [raised |-> FALSE, val |-> "iso:rfc"]
    ELSE IF md = "odd" THEN [raised |-> FALSE, val |-> "iso:odd"]
    ELSE [raised |-> TRUE, val |-> NULL]

\* a parsemaildate that swallows the failure of both parsers
parsemaildateQuiet(md) ==
    IF ~PrimaryParse(md).raised THEN PrimaryParse(md)
    ELSE IF ~SecondaryParse(md).raised THEN SecondaryParse(md)
    ELSE [raised |-> FALSE, val |-> NULL]

\* parsemaildate(md): the primary parser reads the global tdate, which holds md
parsemaildate(md) ==
    IF ~PrimaryParse(md).raised THEN PrimaryParse(md) ELSE SecondaryParse(md)

\* an extraction that takes the first match of a pattern, however many there are
ExtractEmailFirst(hdr) ==
    IF Len(hdr.fromAngle) >= 1 THEN DropLt(StripLower(hdr.fromAngle[1]))
    ELSE IF Len(hdr.fromBare) >= 1 THEN DropLt(StripLower(hdr.fromBare[1]))
    ELSE NULL

\* the email extraction: the angle-bracket pattern first, then the bare pattern
ExtractEmail(hdr) ==
    IF Len(hdr.fromAngle) = 1 THEN DropLt(StripLower(hdr.fromAngle[1]))
    ELSE IF Len(hdr.fromBare) = 1 THEN DropLt(StripLower(hdr.fromBare[1]))
    ELSE NULL

\* the sent_at extraction; raised = the except branch of the script is taken
ExtractDate(hdr) ==
    IF Len(hdr.dates) = 1 THEN parsemaildate(Truncate26(hdr.dates[1]))
    ELSE [raised |-> FALSE, val |-> NULL]

ExtractSubject(hdr) ==
    IF Len(hdr.subjects) = 1 THEN StripLower(hdr.subjects[1]) ELSE NULL

\* the tuple handed to INSERT
Row(id, d) ==
    [id |-> id, email |-> ExtractEmail(d), sent_at |-> ExtractDate(d).val,
     subject |-> ExtractSubject(d), headers |-> <<d.name, "hdr">>,
     body |-> <<d.name, "body">>]

----------------------------------------------------------------------------
(* The store. *)

\* the rows this connection sees: the committed ones and its own pending ones
Visible == committed (+) pending

IdsOf(bag) == { r.id : r \in BagToSet(bag) }

\* a query for the lowest stored id
SelectMin(bag) ==
    IF IdsOf(bag) = {} THEN [kind |-> "row", isnull |-> TRUE, val |-> 0]
    ELSE [kind |-> "row", isnull |-> FALSE,
          val |-> CHOOSE m \in IdsOf(bag) : \A i \in IdsOf(bag) : i >= m]

\* SELECT max(id) FROM messages, then fetchone(): one row, holding NULL on
\* an empty table
SelectMax(bag) ==
    IF IdsOf(bag) = {} THEN [kind |-> "row", isnull |-> TRUE, val |-> 0]
    ELSE [kind |-> "row", isnull |-> FALSE,
          val |-> CHOOSE m \in IdsOf(bag) : \A i \in IdsOf(bag) : i <= m]

\* a cursor initialisation that forgets the stored maximum
InitialStartZero(fetched) == 0

\* the cursor initialisation from what fetchone() gave: a row (kind "row"),
\* None (kind "norow") or an exception (kind "raise")
InitialStart(fetched) ==
    IF fetched.kind = "raise" THEN 0
    ELSE IF fetched.kind = "norow" THEN 0
    ELSE IF fetched.isnull THEN 0
    ELSE fetched.val

\* SELECT id FROM messages WHERE id = %s: the rows with that id
SelectId(bag, id) == id \in IdsOf(bag)

\* an insert that leaves the new row alone in the table
ExecInsertOnly(bag, row) == SetToBag({row})

\* an insert that adds the row twice
ExecInsertTwice(bag, row) == bag (+) SetToBag({row}) (+) SetToBag({row})

\* INSERT ... ON CONFLICT DO NOTHING on a table that declares no unique
\* constraint or index: no conflict can arise, the row is always added
ExecInsert(bag, row) == bag (+) SetToBag({row})

\* the retrieval address
MakeUrl(id) == <<BaseUrl>> \o Str(id) \o <<"/">> \o Str(id + 1)

----------------------------------------------------------------------------
(* The network. *)

\* the message the archive holds at each position
Archive(id) == <<DocFull, DocBare, DocAmbig, DocOdd>>[((id - 1) % 4) + 1]

\* what the server can send instead of the message
Garbled == {DocBadDate, DocNoFrom, DocNoBreak}

Statuses == {200, 204, 404}

\* what one urlopen call for an id can meet: an HTTP response with a status
\* and a document, no response in time, or Ctrl-C while it waits
Outcomes(id) ==
    [kind : {"http"}, status : {200}, text : {Archive(id)} \cup Garbled]
    \cup [kind : {"http"}, status : Statuses \ {200}, text : {DocNoFrom}]
    \cup { [kind |-> k, status |-> 0, text |-> TextNone] : k \in {"timeout", "interrupt"} }

\* a urlopen that hands back every HTTP response, whatever its status
urlopenAnyStatus(o) ==
    IF o.kind = "interrupt" THEN [kind |-> "interrupt", code |-> 0]
    ELSE IF o.kind = "timeout" THEN [kind |-> "error", code |-> 0]
    ELSE [kind |-> "ok", code |-> o.status]

\* urllib.request.urlopen followed by read().decode(): returns the response
\* (kind "ok"), raises KeyboardInterrupt (kind "interrupt"), or raises an
\* Exception (kind "error"): URLError on a timeout, HTTPError on every
\* status outside 200..299
urlopen(o) ==
    IF o.kind = "interrupt" THEN [kind |-> "interrupt", code |-> 0]
    ELSE IF o.kind = "timeout" THEN [kind |-> "error", code |-> 0]
    ELSE IF o.status < 200 \/ o.status > 299 THEN [kind |-> "error", code |-> o.status]
    ELSE [kind |-> "ok", code |-> o.status]

----------------------------------------------------------------------------
(* The script. *)

\* the stores a run can find: at most one row per id, ids 1..MaxInitId.
\* SELECT max(id) always delivers one row, so of the three cases of
\* InitialStart a run meets the first only.
InitStores ==
    { SetToBag({ Row(i, Archive(i)) : i \in S }) : S \in SUBSET (1..MaxInitId) }

Init ==
    /\ committed \in InitStores
    /\ pending = EmptyBag
    /\ start = InitialStart(SelectMax(committed))
    /\ many = 0
    /\ count = 0
    /\ fail = 0
    /\ url = <<>>
    /\ pc = "top"
    /\ closed = FALSE
    /\ event = "start"
    /\ netcalls = 0
    /\ attempts = 0
    /\ budget = 0
    /\ tfails = 0
    /\ reached = [id |-> 0, present |-> FALSE]
    /\ text = TextNone
    /\ status = 0
    /\ cause = "none"
    /\ others = 0
    /\ tried = {}
    /\ failed = {}
    /\ runs = 0

\* the breaker tripping one failure late
AfterFailureLate(f) == IF f > FailLimit THEN "exit" ELSE "top"

\* the breaker tripping one failure early
AfterFailureEarly(f) == IF f + 1 >= FailLimit THEN "exit" ELSE "top"

\* `fail = fail + 1 ; if fail > 5 : break ; continue`, f the counter before
AfterFailure(f) == IF f + 1 > FailLimit THEN "exit" ELSE "top"

\* the interruption handled like a failure that lets the loop go on
OnInterruptContinue == "top"

\* `except KeyboardInterrupt: ... break`
OnInterrupt == "exit"

\* the presence check never finding a row
RowFoundNever(id) == FALSE

\* `row = cur.fetchone() ; if row is not None : continue`.  fetchone() reads
\* the result the executed SELECT already delivered and does not raise, so
\* the except branch (row = None) is not taken.
RowFound(id) == SelectId(Visible, id)

\* a cursor that is not advanced
NextIdSame(s) == s

\* `start = start + 1`
NextId(s) == s + 1

\* a budget that is not consumed
SpendNothing(m) == m

\* `many = many - 1`
Spend(m) == m - 1

\* a boundary test that takes find's -1 for a position
HasBoundaryTruthy(d) == d.pos # 0

\* `pos = text.find("\n\n") ; if pos > 0`
HasBoundary(d) == d.pos > 0

\* lines 66-70: commit, prompt, blank input leaves the loop, int(sval)
Prompt(sval) ==
    /\ pc = "top"
    /\ many < 1
    /\ committed' = committed (+) pending
    /\ pending' = EmptyBag
    /\ IF Len(sval) < 1
       THEN /\ pc' = "exit"
            /\ event' = "blank"
            /\ cause' = "blank"
            /\ UNCHANGED <<many, budget, attempts>>
       ELSE IF ~IntOf(sval).ok
       THEN /\ pc' = "crashed"
            /\ event' = "valueerror"
            /\ cause' = "valueerror"
            /\ UNCHANGED <<many, budget, attempts>>
       ELSE /\ many' = IntOf(sval).val
            /\ budget' = IntOf(sval).val
            /\ attempts' = 0
            /\ pc' = "advance"
            /\ event' = "prompt"
            /\ cause' = cause
    /\ UNCHANGED <<start, count, fail, url, closed, netcalls, tfails, reached,
                   text, status, others, tried, failed, runs>>

\* lines 72-81: advance the cursor, skip an id that has a row, else take one
\* unit of the budget and build the address
AdvanceWithin(limit) ==
    /\ pc = "advance" \/ (pc = "top" /\ many >= 1)
    /\ start < limit
    /\ start' = NextId(start)
    /\ reached' = [id |-> NextId(start), present |-> RowFound(NextId(start))]
    /\ IF RowFound(NextId(start))
       THEN /\ pc' = "top"
            /\ event' = "skip"
            /\ UNCHANGED <<many, url>>
       ELSE /\ many' = Spend(many)
            /\ url' = MakeUrl(NextId(start))
            /\ pc' = "fetch"
            /\ event' = "advance"
    /\ UNCHANGED <<committed, pending, count, fail, closed, netcalls, attempts,
                   budget, tfails, text, status, cause, others, tried, failed, runs>>

Advance == AdvanceWithin(MaxId)

\* lines 83-94: KeyboardInterrupt during the retrieval
FetchInterrupted(o) ==
    /\ pc = "fetch"
    /\ urlopen(o).kind = "interrupt"
    /\ netcalls' = netcalls + 1
    /\ attempts' = attempts + 1
    /\ text' = TextNone
    /\ status' = 0
    /\ pc' = OnInterrupt
    /\ event' = "interrupt"
    /\ cause' = "interrupt"
    /\ tfails' = 0
    /\ tried' = tried \cup {start}
    /\ failed' = failed
    /\ runs' = runs
    /\ UNCHANGED <<committed, pending, start, many, count, fail, url, closed,
                   budget, reached, others>>

\* lines 83-100: any other exception of the retrieval
FetchFailed(o) ==
    /\ pc = "fetch"
    /\ urlopen(o).kind = "error"
    /\ netcalls' = netcalls + 1
    /\ attempts' = attempts + 1
    /\ text' = TextNone
    /\ status' = o.status
    /\ fail' = fail + 1
    /\ pc' = AfterFailure(fail)
    /\ event' = "transport"
    /\ cause' = IF AfterFailure(fail) = "exit" THEN "breaker" ELSE cause
    /\ tfails' = tfails + 1
    /\ tried' = tried \cup {start}
    /\ failed' = failed \cup {start}
    /\ runs' = runs
    /\ UNCHANGED <<committed, pending, start, many, count, url, closed,
                   budget, reached, others>>

\* lines 83-90: the call returned with a code other than 200
FetchStatus(o) ==
    /\ pc = "fetch"
    /\ urlopen(o).kind = "ok"
    /\ urlopen(o).code # 200
    /\ netcalls' = netcalls + 1
    /\ attempts' = attempts + 1
    /\ text' = o.text
    /\ status' = o.status
    /\ pc' = "exit"
    /\ event' = "status"
    /\ cause' = "status"
    /\ tfails' = 0
    /\ tried' = tried \cup {start}
    /\ failed' = failed
    /\ runs' = runs
    /\ UNCHANGED <<committed, pending, start, many, count, fail, url, closed,
                   budget, reached, others>>

\* lines 83-121: the document lacks the "From " marker or the blank line
FormatFailed(o) ==
    /\ pc = "fetch"
    /\ urlopen(o).kind = "ok"
    /\ urlopen(o).code = 200
    /\ ~o.text.marker \/ ~HasBoundary(o.text)
    /\ netcalls' = netcalls + 1
    /\ attempts' = attempts + 1
    /\ text' = o.text
    /\ status' = o.status
    /\ count' = count + 1
    /\ fail' = fail + 1
    /\ pc' = AfterFailure(fail)
    /\ event' = IF ~o.text.marker THEN "nomarker" ELSE "nobreak"
    /\ cause' = IF AfterFailure(fail) = "exit" THEN "breaker" ELSE cause
    /\ tfails' = 0
    /\ tried' = tried \cup {start}
    /\ failed' = failed \cup {start}
    /\ runs' = runs
    /\ UNCHANGED <<committed, pending, start, many, url, closed, budget, reached,
                   others>>

\* lines 83-148: one Date line and parsemaildate raised
DateFailed(o) ==
    /\ pc = "fetch"
    /\ urlopen(o).kind = "ok"
    /\ urlopen(o).code = 200
    /\ o.text.marker /\ HasBoundary(o.text)
    /\ ExtractDate(o.text).raised
    /\ netcalls' = netcalls + 1
    /\ attempts' = attempts + 1
    /\ text' = o.text
    /\ status' = o.status
    /\ count' = count + 1
    /\ fail' = fail + 1
    /\ pc' = AfterFailure(fail)
    /\ event' = "datefail"
    /\ cause' = IF AfterFailure(fail) = "exit" THEN "breaker" ELSE cause
    /\ tfails' = 0
    /\ tried' = tried \cup {start}
    /\ failed' = failed \cup {start}
    /\ runs' = runs
    /\ UNCHANGED <<committed, pending, start, many, url, closed, budget, reached,
                   others>>

\* lines 83-161: the document parsed; reset fail, insert, commit every 50th
Stored(o) ==
    /\ pc = "fetch"
    /\ urlopen(o).kind = "ok"
    /\ urlopen(o).code = 200
    /\ o.text.marker /\ HasBoundary(o.text)
    /\ ~ExtractDate(o.text).raised
    /\ netcalls' = netcalls + 1
    /\ attempts' = attempts + 1
    /\ text' = o.text
    /\ status' = o.status
    /\ count' = count + 1
    /\ fail' = 0
    /\ IF (count + 1) % CommitEvery = 0
       THEN /\ committed' = ExecInsert(committed (+) pending, Row(start, o.text))
            /\ pending' = EmptyBag
       ELSE /\ pending' = ExecInsert(pending, Row(start, o.text))
            /\ committed' = committed
    /\ pc' = "top"
    /\ event' = "inserted"
    /\ tfails' = 0
    /\ tried' = tried \cup {start}
    /\ failed' = failed
    /\ runs' = runs
    /\ UNCHANGED <<start, many, url, closed, budget, reached, cause, others>>

\* lines 163-164: after the loop, conn.commit() and cur.close()
Finish ==
    /\ pc = "exit"
    /\ committed' = committed (+) pending
    /\ pending' = EmptyBag
    /\ closed' = TRUE
    /\ pc' = "done"
    /\ event' = "closed"
    /\ UNCHANGED <<start, many, count, fail, url, netcalls, attempts, budget,
                   tfails, reached, text, status, cause, others, tried, failed,
                   runs>>

Next ==
    \/ \E sval \in Inputs : Prompt(sval)
    \/ Advance
    \/ \E o \in Outcomes(start) : FetchInterrupted(o)
    \/ \E o \in Outcomes(start) : FetchFailed(o)
    \/ \E o \in Outcomes(start) : FetchStatus(o)
    \/ \E o \in Outcomes(start) : FormatFailed(o)
    \/ \E o \in Outcomes(start) : DateFailed(o)
    \/ \E o \in Outcomes(start) : Stored(o)
    \/ Finish

\* one run of the script, alone on its store
Spec == Init /\ [][Next]_vars

----------------------------------------------------------------------------
(* A second client of the same store. *)

\* another run of the script commits the row of an id it found absent
\* (lines 73-76 and 157-160 of that run); the rows it has committed are
\* visible to this run's next statement
OtherCommit(k) ==
    /\ pc \in {"top", "advance", "fetch"}
    /\ others < MaxOthers
    /\ k >= start
    /\ ~SelectId(committed, k)
    /\ committed' = ExecInsert(committed, Row(k, Archive(k)))
    /\ others' = others + 1
    /\ UNCHANGED <<pending, start, many, count, fail, url, pc, closed, event,
                   netcalls, attempts, budget, tfails, reached, text, status,
                   cause, tried, failed, runs>>

NextShared ==
    \/ Next
    \/ \E k \in 1..MaxId : OtherCommit(k)

\* one run of the script on a store that another run writes to
SpecShared == Init /\ [][NextShared]_vars

----------------------------------------------------------------------------
(* The parser on its own: one retrieved document, any header block. *)

Addresses == {"Ann@X.org", "Cy@Z.org", "<Bob@Y.org"}

\* what re.findall can return for one From pattern
MatchLists == UNION { [1..k -> Addresses] : k \in 0..MaxMatches }

\* documents with marker and blank line, no Date and no Subject line
ParseInputs ==
    { Document("synthetic", TRUE, 30, fa, fb, <<>>, <<>>) :
          fa \in MatchLists, fb \in MatchLists }

\* the script at line 104 of its first iteration, on an empty store: the
\* document of id 1 has been retrieved with status 200
InitParse ==
    /\ committed = EmptyBag
    /\ pending = EmptyBag
    /\ start = 1
    /\ many = 0
    /\ count = 1
    /\ fail = 0
    /\ url = MakeUrl(1)
    /\ pc = "parse"
    /\ closed = FALSE
    /\ event = "retrieved"
    /\ netcalls = 1
    /\ attempts = 1
    /\ budget = 1
    /\ tfails = 0
    /\ reached = [id |-> 1, present |-> FALSE]
    /\ text \in ParseInputs
    /\ status = 200
    /\ cause = "none"
    /\ others = 0
    /\ tried = {1}
    /\ failed = {}
    /\ runs = 0

\* lines 105-161 on a document that passes the format and date checks
ParseAndInsert ==
    /\ pc = "parse"
    /\ text.marker /\ HasBoundary(text)
    /\ ~ExtractDate(text).raised
    /\ fail' = 0
    /\ IF count % CommitEvery = 0
       THEN /\ committed' = ExecInsert(committed (+) pending, Row(start, text))
            /\ pending' = EmptyBag
       ELSE /\ pending' = ExecInsert(pending, Row(start, text))
            /\ committed' = committed
    /\ pc' = "top"
    /\ event' = "inserted"
    /\ UNCHANGED <<start, many, count, url, closed, netcalls, attempts, budget,
                   tfails, reached, text, status, cause, others, tried, failed,
                   runs>>

NextParse == ParseAndInsert

SpecParse == InitParse /\ [][NextParse]_vars

----------------------------------------------------------------------------
(* A long batch: the run near its fiftieth retrieved document. *)

\* the ids the batch has stored so far
BatchDone == 1..(CommitEvery - 2)

\* the script at the top of the loop, alone on a store that was empty at
\* startup: one prompt answered, every document up to BatchDone retrieved
\* and inserted, nothing committed since count has not reached 50
InitBatch ==
    /\ committed = EmptyBag
    /\ pending = SetToBag({ Row(i, Archive(i)) : i \in BatchDone })
    /\ start = CommitEvery - 2
    /\ many = MaxBatch
    /\ count = CommitEvery - 2
    /\ fail = 0
    /\ url = MakeUrl(CommitEvery - 2)
    /\ pc = "top"
    /\ closed = FALSE
    /\ event = "inserted"
    /\ netcalls = CommitEvery - 2
    /\ attempts = CommitEvery - 2
    /\ budget = CommitEvery - 2 + MaxBatch
    /\ tfails = 0
    /\ reached = [id |-> CommitEvery - 2, present |-> FALSE]
    /\ text = Archive(CommitEvery - 2)
    /\ status = 200
    /\ cause = "none"
    /\ others = 0
    /\ tried = BatchDone
    /\ failed = {}
    /\ runs = 0

AdvanceBatch == AdvanceWithin(CommitEvery - 2 + MaxBatch)

NextBatch ==
    \/ \E sval \in Inputs : Prompt(sval)
    \/ AdvanceBatch
    \/ \E o \in Outcomes(start) : FetchInterrupted(o)
    \/ \E o \in Outcomes(start) : FetchFailed(o)
    \/ \E o \in Outcomes(start) : FetchStatus(o)
    \/ \E o \in Outcomes(start) : FormatFailed(o)
    \/ \E o \in Outcomes(start) : DateFailed(o)
    \/ \E o \in Outcomes(start) : Stored(o)
    \/ Finish

SpecBatch == InitBatch /\ [][NextBatch]_vars

----------------------------------------------------------------------------
(* The script run again on the store the last run left. *)

\* the process has ended (lines 163-164, or the ValueError of line 70, which
\* comes after the commit of line 66); a new process connects, reads
\* max(id) and starts with fresh counters (lines 49-64)
Rerun ==
    /\ pc \in {"done", "crashed"}
    /\ runs < MaxRuns
    /\ runs' = runs + 1
    /\ pending' = EmptyBag
    /\ start' = InitialStart(SelectMax(committed))
    /\ many' = 0
    /\ count' = 0
    /\ fail' = 0
    /\ url' = <<>>
    /\ pc' = "top"
    /\ closed' = FALSE
    /\ event' = "start"
    /\ netcalls' = 0
    /\ attempts' = 0
    /\ budget' = 0
    /\ tfails' = 0
    /\ reached' = [id |-> 0, present |-> FALSE]
    /\ text' = TextNone
    /\ status' = 0
    /\ cause' = "none"
    /\ tried' = {}
    /\ UNCHANGED <<committed, others, failed>>

NextRerun ==
    \/ Next
    \/ Rerun

SpecRerun == Init /\ [][NextRerun]_vars

TypeOK ==
    /\ start \in 0..MaxId
    /\ fail \in 0..(FailLimit + 1)
    /\ pc \in {"top", "advance", "fetch", "exit", "done", "crashed"}

----------------------------------------------------------------------------
(* Properties. *)

\* the events of a retrieval that count as a failure
FailureEvents == {"transport", "nomarker", "nobreak", "datefail"}

\* C1: an id that has a row when the loop reaches it is only stepped over:
\* the step that reaches it makes no retrieval and no insert and moves the
\* cursor by one, and every retrieval (and the insert it may end in) is for
\* an id whose presence check found no row.
C1_IdempotentResume ==
    [][ /\ (start' # start /\ SelectId(Visible, start + 1))
            => /\ start' = start + 1
               /\ netcalls' = netcalls
               /\ pending' = pending
               /\ committed' = committed
               /\ pc' = "top"
        /\ (netcalls' # netcalls) => (reached.id = start /\ ~reached.present)
      ]_vars

C1_Witness ==
    /\ event = "skip"
    /\ reached.present
    /\ reached.id = start
    /\ netcalls > 0

\* C2: the insert of an id that already has a row leaves the table as it was.
C2_InsertIdempotent ==
    [][ (netcalls' # netcalls /\ event' = "inserted" /\ SelectId(Visible, start))
            => (committed' (+) pending' = Visible) ]_vars

\* C3: fail grows by exactly one on each failed retrieval, becomes 0 on each
\* stored message and changes in no other step; after a failure that leaves
\* it at 5 or less the loop goes on, and once it exceeds 5 (it is then 6) the
\* loop has been left, whatever is left of the budget.
C3_CircuitBreaker ==
    [][ /\ (netcalls' # netcalls /\ event' \in FailureEvents) => fail' = fail + 1
        /\ (netcalls' # netcalls /\ event' = "inserted") => fail' = 0
        /\ (fail' # fail) => (netcalls' # netcalls /\ event' \in FailureEvents \cup {"inserted"})
        /\ (netcalls' # netcalls /\ event' \in FailureEvents /\ fail' <= 5) => pc' = "top"
        /\ (fail' > 5) => (fail' = 6 /\ pc' \in {"exit", "done"} /\ cause' = "breaker")
      ]_vars

C3_Witness ==
    /\ fail = 6
    /\ pc = "exit"
    /\ cause = "breaker"
    /\ many >= 1

\* C4 as stated: once five transport failures in a row have happened, no
\* further retrieval is made.
C4_NoSixthCall ==
    [][ (tfails = 5) => (netcalls' = netcalls) ]_vars

\* C4 as amended: the fifth of five transport failures in a row that brings
\* fail to 5 leaves the loop running; an attempt that reaches the retrieval always makes the
\* call; and the loop is left for the breaker only in the step of a failed
\* retrieval that brings fail to 6.
C4_SixthCallTrips ==
    [][ /\ (netcalls' # netcalls /\ tfails' = 5 /\ fail' = 5) => (pc' = "top" /\ cause' = "none")
        /\ (pc = "fetch" /\ pc' # "fetch") => (netcalls' = netcalls + 1)
        /\ (cause = "none" /\ cause' = "breaker")
              => (netcalls' = netcalls + 1 /\ event' \in FailureEvents /\ fail' = 6)
      ]_vars

C4_Witness ==
    /\ tfails = 6
    /\ fail = 6
    /\ netcalls >= 6
    /\ cause = "breaker"

\* C5: a retrieval that meets a status outside 200..299 counts one failure,
\* stores nothing, leaves the cursor where it is, and the loop goes on with
\* the next id unless fail now exceeds 5.
C5_StatusRecoverable ==
    [][ (netcalls' # netcalls /\ status' # 0 /\ (status' < 200 \/ status' > 299))
            => /\ event' = "transport"
               /\ fail' = fail + 1
               /\ committed' (+) pending' = Visible
               /\ start' = start
               /\ pc' = (IF fail' > 5 THEN "exit" ELSE "top")
               /\ (fail' <= 5 => cause' = "none")
      ]_vars

C5_Witness ==
    /\ event = "transport"
    /\ status = 404
    /\ pc = "top"
    /\ fail >= 1

\* C6: the interruption of a retrieval leaves the loop at once, whatever
\* fail and many are; from then on there is no retrieval, no prompt and no
\* insert, only the final commit and close, and the interrupted id has no row.
C6_InterruptTerminal ==
    [][ /\ (netcalls' # netcalls /\ event' = "interrupt")
              => /\ pc' = "exit"
                 /\ cause' = "interrupt"
                 /\ committed' (+) pending' = Visible
                 /\ ~SelectId(Visible, start)
        /\ (cause = "interrupt")
              => /\ netcalls' = netcalls
                 /\ committed' (+) pending' = Visible
                 /\ event' = "closed"
                 /\ pc' = "done"
                 /\ ~SelectId(committed', start')
      ]_vars

C6_Witness ==
    /\ cause = "interrupt"
    /\ pc = "done"
    /\ fail >= 1
    /\ many >= 1

\* C7: a run that has ended has left the loop by blank input, by the
\* interruption or by the breaker, has closed the cursor and holds no
\* uncommitted row.
C7_OrderlyExit ==
    (pc \in {"done", "crashed"})
        => /\ cause \in {"blank", "interrupt", "breaker"}
           /\ closed
           /\ pending = EmptyBag

C9_BatchBudget ==
    [][ /\ attempts' <= budget'
        /\ (cause = "blank") => (netcalls' = netcalls) ]_vars

\* both parsers fail on the date value as the script hands it over
BothParsersFail(d) ==
    PrimaryParse(Truncate26(d)).raised /\ SecondaryParse(Truncate26(d)).raised

RowsWithId(bag, id) ==
    LET RECURSIVE Sum(_)
        Sum(S) == IF S = {} THEN 0
                  ELSE LET r == CHOOSE x \in S : TRUE
                       IN CopiesIn(r, bag) + Sum(S \ {r})
    IN Sum({ r \in BagToSet(bag) : r.id = id })

\* C11: no step takes a row away or changes one: every row keeps its copies,
\* among the rows the connection sees and among the committed ones; and the
\* rows change only by the one row of the id just retrieved, in the step of
\* a retrieval with status 200 whose document has marker, blank line and no
\* failing date.
C11_RecordLifecycle ==
    [][ /\ \A r \in BagToSet(Visible) :
              CopiesIn(r, committed' (+) pending') >= CopiesIn(r, Visible)
        /\ \A r \in BagToSet(committed) :
              CopiesIn(r, committed') >= CopiesIn(r, committed)
        /\ (committed' (+) pending' # Visible)
              => /\ netcalls' = netcalls + 1
                 /\ event' = "inserted"
                 /\ status' = 200
                 /\ text'.marker /\ text'.pos > 0
                 /\ ~(Len(text'.dates) = 1 /\ BothParsersFail(text'.dates[1]))
                 /\ \E r \in BagToSet(committed' (+) pending') :
                       /\ r.id = start
                       /\ r.headers = <<text'.name, "hdr">>
                       /\ committed' (+) pending' = Visible (+) SetToBag({r})
      ]_vars

C11_Witness ==
    /\ pc = "done"
    /\ count >= 2
    /\ BagCardinality(committed) >= 4
    /\ pending = EmptyBag

\* C12: in one run alone on a store that began with at most one row per id,
\* every id of the table has exactly one row, at every point of the run.
C12_UniquePerRun ==
    \A id \in IdsOf(Visible) : RowsWithId(Visible, id) = 1

C12_Witness ==
    /\ event = "inserted"
    /\ count >= 2
    /\ BagCardinality(pending) >= 2
    /\ BagCardinality(committed) >= 2

\* C13: with a second run of the script writing to the same store, no id
\* ever has more than one row, among the rows this run sees and among the
\* committed ones, and no step takes a row away or changes one.
C13_ConcurrentSafe ==
    [][ /\ \A id \in IdsOf(committed' (+) pending') :
              RowsWithId(committed' (+) pending', id) <= 1
        /\ \A id \in IdsOf(committed') : RowsWithId(committed', id) <= 1
        /\ \A r \in BagToSet(Visible) :
              CopiesIn(r, committed' (+) pending') >= CopiesIn(r, Visible)
      ]_vars

\* C14: a document retrieved with status 200 that does not start with the
\* marker, or in which find meets no blank line, gets no row and counts one
\* failure; nothing escapes the loop, which goes on unless fail now exceeds 5.
C14_FormatFailure ==
    [][ (netcalls' # netcalls /\ status' = 200 /\ (~text'.marker \/ text'.pos < 0))
            => /\ event' \in {"nomarker", "nobreak"}
               /\ committed' (+) pending' = Visible
               /\ fail' = fail + 1
               /\ start' = start
               /\ pc' = (IF fail' > 5 THEN "exit" ELSE "top")
      ]_vars

C14_Witness ==
    /\ event = "nobreak"
    /\ text = DocNoBreak
    /\ pc = "top"
    /\ fail >= 2

\* the From lines of the document that match one pattern or the other
FromLines == Len(text.fromAngle) + Len(text.fromBare)

\* the address as the script records it
Recorded(a) ==
    CASE a = "Ann@X.org"  -> "ann@x.org"
      [] a = "Cy@Z.org"   -> "cy@z.org"
      [] a = "<Bob@Y.org" -> "bob@y.org"

\* C15 as stated: the row of a document with no matching From line, or with
\* two or more in total, has no email; a row has an email only when exactly
\* one From line matches.
C15_AbsentUnlessOneLine ==
    (event = "inserted")
        => \A r \in BagToSet(pending) :
              /\ (FromLines # 1) => (r.email = NULL)
              /\ (r.email # NULL) => (FromLines = 1)

\* C15 as amended: the row has no email exactly when neither pattern matches
\* exactly once; when the angle-bracket pattern matches exactly once the row
\* has its address, whatever the bare pattern matches, and otherwise, when
\* the bare pattern matches exactly once, the address of that match.
C15_AbsentUnlessOnePerPattern ==
    (event = "inserted")
        => \A r \in BagToSet(pending) :
              /\ (r.email = NULL)
                    <=> (Len(text.fromAngle) # 1 /\ Len(text.fromBare) # 1)
              /\ (Len(text.fromAngle) = 1)
                    => (r.email = Recorded(text.fromAngle[1]))
              /\ (Len(text.fromAngle) # 1 /\ Len(text.fromBare) = 1)
                    => (r.email = Recorded(text.fromBare[1]))

C15_Witness ==
    /\ event = "inserted"
    /\ Len(text.fromAngle) = 2
    /\ Len(text.fromBare) = 1
    /\ \E r \in BagToSet(pending) : r.id = start /\ r.email = "bob@y.org"

\* C16: when the count of retrieved documents is a multiple of 50 the next
\* retrieval starts with nothing pending, and there are never more than 50
\* inserted rows pending.
C16_PeriodicCommit ==
    /\ (pc = "fetch" /\ count > 0 /\ count % CommitEvery = 0)
           => (pending = EmptyBag)
    /\ BagCardinality(pending) <= CommitEvery

\* C17: the cursor moves by exactly 1 at each pass of the loop, whether the
\* pass skips, fails or stores, and by nothing else (no retrieval and no
\* change of the store moves it); so every retrieval is for an id above all
\* the ids retrieved before in the run, and no id, failed or not, is
\* retrieved twice.
C17_CursorMonotonic ==
    [][ /\ start' \in {start, start + 1}
        /\ (pc # "fetch" /\ pc' = "fetch") => (start' = start + 1)
        /\ (event' = "skip" /\ reached' # reached) => (start' = start + 1)
        /\ (start' # start) => (netcalls' = netcalls /\ committed' = committed)
        /\ (netcalls' # netcalls)
              => /\ start' = start
                 /\ start \notin tried
                 /\ start \notin failed
                 /\ \A i \in tried : i < start
        /\ (committed' # committed \/ pending' # pending) => (start' = start)
      ]_vars

\* a run that has failed on an id, skipped a later id that another run
\* stored, and retrieved the id after it
C17_Witness ==
    /\ event = "inserted"
    /\ failed # {}
    /\ \E i \in 1..MaxId, j \in 1..MaxId, k \in 1..MaxId :
          /\ i < j /\ j < k /\ k = start
          /\ i \in failed
          /\ j \notin tried /\ SelectId(committed, j)
          /\ k \in tried

\* C18: every run starts its cursor at the highest stored id, so every
\* retrieval, in the first run or a later one, is for an id above all the
\* stored ids: an id whose retrieval failed is never retrieved again once a
\* row with a higher id is stored, and a later run retrieves a failed id
\* again only if it lies above the highest stored id.
C18_PermanentGaps ==
    [][ /\ (runs' # runs)
              => (start' = IF IdsOf(committed) = {} THEN 0
                           ELSE CHOOSE m \in IdsOf(committed) :
                                    \A i \in IdsOf(committed) : i <= m)
        /\ (netcalls' = netcalls + 1)
              => /\ \A i \in IdsOf(Visible) : i < start
                 /\ \A k \in failed :
                       (\E i \in IdsOf(Visible) : i > k) => (start # k)
                 /\ (start \in failed) => (runs >= 1 /\ start \notin tried)
      ]_vars

\* a later run has retrieved and stored an id that failed before, while a
\* lower failed id, below a row stored in between, is still missing
C18_Witness ==
    /\ runs >= 1
    /\ event = "inserted"
    /\ start \in failed
    /\ SelectId(pending, start)
    /\ \E k \in failed, j \in IdsOf(committed) :
          /\ k < j /\ j < start
          /\ ~SelectId(Visible, k)

\* C19: the pass that leads to a retrieval takes one unit of the budget and
\* every retrieval is one attempt, whatever its outcome; a skip takes no
\* budget and leaves the failure counter, the count and the store alone.
\* For a budget of 1 or more the units left and the attempts made add up to
\* the budget, the rows inserted since the prompt are no more than the
\* attempts, and the next prompt comes after exactly as many attempts as
\* the budget.
C19_BudgetAccounting ==
    [][ /\ (event' = "skip" /\ reached' # reached)
              => /\ many' = many /\ fail' = fail /\ count' = count
                 /\ committed' = committed /\ pending' = pending
                 /\ netcalls' = netcalls /\ attempts' = attempts
        /\ (pc # "fetch" /\ pc' = "fetch") => (many' = many - 1)
        /\ (netcalls' = netcalls + 1)
              => (attempts' = attempts + 1 /\ many' = many)
        /\ (budget' >= 1)
              => /\ many' + attempts' + (IF pc' = "fetch" THEN 1 ELSE 0) = budget'
                 /\ BagCardinality(pending') <= attempts'
        /\ (budget >= 1 /\ pc = "top" /\ event' \in {"prompt", "blank", "valueerror"})
              => (attempts = budget /\ many = 0)
      ]_vars

\* the end of a batch of 2 that skipped one id, failed on one and stored one
C19_Witness ==
    /\ pc = "top"
    /\ budget = 2 /\ many = 0 /\ attempts = 2
    /\ BagCardinality(pending) = 1
    /\ Cardinality(failed) = 1
    /\ \E i \in tried, j \in 1..MaxId :
          i < j /\ j < start /\ j \notin tried /\ SelectId(committed, j)

====
